---- MODULE Spec2Model ----
(***************************************************************************)
(* Model of Pending<T> (node/narwhal/src/helpers/pending.rs): the map of   *)
(* pending items to the peer IPs that have them, and the callback queue.   *)
(* Callers run insert and remove concurrently; every statement that takes  *)
(* one of the two locks is one critical section of the model.              *)
(***************************************************************************)
EXTENDS Integers, Sequences, FiniteSets, TLC

\* Bounds of the model.
NumCallers == 2
NumItems == 2
NumPeers == 2
MaxCalls == 3
MaxBulkRemoves == 3
MaxSignals == 2
MaxSeqCalls == 4
MaxSeqSignals == 3
MaxFairCalls == 2

Callers == 1..NumCallers
Items == 1..NumItems
Peers == 1..NumPeers

VARIABLES
    pending,        \* Pending::pending   : item -> set of peer IPs (a partial map)
    callbacks,      \* Pending::callbacks : item -> sequence of oneshot senders
    pendingLock,    \* the callers holding the RwLock of `pending` for writing
    callbacksLock,  \* the callers holding the Mutex of `callbacks`
    pc,             \* the position of every caller in insert / remove
    cur,            \* the call every caller is running (0 when idle)
    todo,           \* the `callbacks` vector a remove took and still has to send to
    calls,          \* every call started so far: arguments, result and history
    sent,           \* the log of callback.send(()) calls, in order
    lastOp,         \* per item: the last operation that wrote it in `pending`
    nextSig,        \* the next fresh oneshot channel
    pendingReaders, \* the callers holding the RwLock of `pending` for reading
    dropped         \* the oneshot channels whose receiver has been dropped

vars == <<pending, callbacks, pendingLock, callbacksLock, pc, cur, todo, calls, sent,
          lastOp, nextSig, pendingReaders, dropped>>

\* HashMap::default(): the map without keys.
EmptyMap == [k \in {} |-> {}]

\* Option<V>: None is the empty sequence, Some(v) the sequence of v alone.
None == <<>>

Some(v) == <<v>>

-----------------------------------------------------------------------------
(* The data-structure operations of the code, as functions of the maps.    *)

\* HashMap::clear() in place of remove(&item): no key is left.
MapClear(map, item) == EmptyMap

\* HashMap::remove(&item): the map without the key.
MapRemove(map, item) == [k \in DOMAIN map \ {item} |-> map[k]]

\* pending.write().remove(&item) without the removal (a lookup only).
PendingKeep(map, item) == map

\* self.pending.write().remove(&item): the pending map afterwards.
PendingRemove(map, item) == MapRemove(map, item)

\* callbacks.lock().remove(&item) without the removal (the senders stay queued).
CallbacksKeep(map, item) == map

\* self.callbacks.lock().remove(&item): the callback queue afterwards.
CallbacksRemove(map, item) == MapRemove(map, item)

\* entry(item).or_default() without the insert of the peer IP.
EntryOrDefault(map, item, peer_ip) ==
    [k \in DOMAIN map \cup {item} |-> IF k \in DOMAIN map THEN map[k] ELSE {}]

\* An insert that overwrites the peer set of the item instead of adding to it.
EntryReplacePeer(map, item, peer_ip) ==
    [k \in DOMAIN map \cup {item} |-> IF k = item THEN {peer_ip} ELSE map[k]]

\* pending.entry(item).or_default().insert(peer_ip)
EntryInsertPeer(map, item, peer_ip) ==
    [k \in DOMAIN map \cup {item} |->
        IF k = item
        THEN (IF item \in DOMAIN map THEN map[item] ELSE {}) \cup {peer_ip}
        ELSE map[k]]

\* A push of the callback at the front of the vector instead of its end.
EntryPushFront(map, item, callback) ==
    [k \in DOMAIN map \cup {item} |->
        IF k = item
        THEN <<callback>> \o (IF item \in DOMAIN map THEN map[item] ELSE <<>>)
        ELSE map[k]]

\* callbacks.entry(item).or_default().push(callback)
EntryPushCallback(map, item, callback) ==
    [k \in DOMAIN map \cup {item} |->
        IF k = item
        THEN Append(IF item \in DOMAIN map THEN map[item] ELSE <<>>, callback)
        ELSE map[k]]

\* The read accessors, evaluated on the pending map at one instant.
is_empty == DOMAIN pending = {}

\* A len() that counts peer addresses instead of identifiers.
LenPeers == Cardinality(UNION {pending[k] : k \in DOMAIN pending})

len == Cardinality(DOMAIN pending)

contains(item) == item \in DOMAIN pending

contains_peer(item, peer_ip) ==
    IF item \in DOMAIN pending THEN peer_ip \in pending[item] ELSE FALSE

get(item) == IF item \in DOMAIN pending THEN Some(pending[item]) ELSE None

-----------------------------------------------------------------------------
(* History kept beside the program state.                                  *)

CallIds == 1..Len(calls)

\* The signals of a sequence of senders, as a set.
Range(seq) == {seq[i] : i \in 1..Len(seq)}

\* The calls that have returned.
Completed == {c \in CallIds : calls[c].done}

\* The remove calls of `item` that have deleted the pending entry and not returned.
StaleRemoves(item) ==
    {c \in CallIds : /\ calls[c].op = "remove"
                     /\ calls[c].item = item
                     /\ calls[c].committed
                     /\ ~calls[c].done}

NewCall(op, t, item, peer_ip, sig) ==
    [op |-> op, caller |-> t, item |-> item, peer |-> peer_ip, sig |-> sig,
     result |-> None, done |-> FALSE, committed |-> FALSE,
     before |-> Completed, stale |-> StaleRemoves(item),
     regAtCommit |-> {}, prevOp |-> "none", taken |-> <<>>, fired |-> <<>>,
     snap |-> EmptyMap]

Init ==
    /\ pending = EmptyMap
    /\ callbacks = EmptyMap
    /\ pendingLock = {}
    /\ callbacksLock = {}
    /\ pc = [t \in Callers |-> "idle"]
    /\ cur = [t \in Callers |-> 0]
    /\ todo = [t \in Callers |-> <<>>]
    /\ calls = <<>>
    /\ sent = <<>>
    /\ lastOp = [x \in Items |-> "none"]
    /\ nextSig = 1
    /\ pendingReaders = {}
    /\ dropped = {}

-----------------------------------------------------------------------------
(* insert(item, peer_ip, callback)                                         *)

\* A caller enters insert; a callback, when given, is a fresh oneshot sender.
StartInsert(t, item, peer_ip, withCallback) ==
    /\ pc[t] = "idle"
    /\ calls' = Append(calls, NewCall("insert", t, item, peer_ip,
                                      IF withCallback THEN Some(nextSig) ELSE None))
    /\ nextSig' = IF withCallback THEN nextSig + 1 ELSE nextSig
    /\ cur' = [cur EXCEPT ![t] = Len(calls) + 1]
    /\ pc' = [pc EXCEPT ![t] = "ins_pending"]
    /\ UNCHANGED <<pending, callbacks, pendingLock, callbacksLock, todo, sent, lastOp,
                   pendingReaders, dropped>>

CallInsert(t, item, peer_ip, withCallback) ==
    /\ Len(calls) < MaxCalls
    /\ withCallback => nextSig <= MaxSignals
    /\ StartInsert(t, item, peer_ip, withCallback)

\* self.pending.write().entry(item).or_default().insert(peer_ip)
InsertPending(t) ==
    /\ pc[t] = "ins_pending"
    /\ pendingLock = {}
    /\ pendingReaders = {}
    /\ pendingLock' = {t}
    /\ pending' = EntryInsertPeer(pending, calls[cur[t]].item, calls[cur[t]].peer)
    /\ lastOp' = [lastOp EXCEPT ![calls[cur[t]].item] = "insert"]
    /\ calls' = [calls EXCEPT ![cur[t]].committed = TRUE]
    /\ pc' = [pc EXCEPT ![t] = "ins_pending_unlock"]
    /\ UNCHANGED <<callbacks, callbacksLock, cur, todo, sent, nextSig,
                   pendingReaders, dropped>>

\* The write guard is dropped at the end of the statement; without a callback
\* insert returns.
InsertPendingUnlock(t) ==
    /\ pc[t] = "ins_pending_unlock"
    /\ pendingLock' = pendingLock \ {t}
    /\ IF calls[cur[t]].sig = None
       THEN /\ calls' = [calls EXCEPT ![cur[t]].done = TRUE]
            /\ cur' = [cur EXCEPT ![t] = 0]
            /\ pc' = [pc EXCEPT ![t] = "idle"]
       ELSE /\ pc' = [pc EXCEPT ![t] = "ins_callbacks"]
            /\ UNCHANGED <<calls, cur>>
    /\ UNCHANGED <<pending, callbacks, callbacksLock, todo, sent, lastOp, nextSig,
                   pendingReaders, dropped>>

\* self.callbacks.lock().entry(item).or_default().push(callback)
InsertCallbacks(t) ==
    /\ pc[t] = "ins_callbacks"
    /\ callbacksLock = {}
    /\ callbacksLock' = {t}
    /\ callbacks' = EntryPushCallback(callbacks, calls[cur[t]].item, calls[cur[t]].sig[1])
    /\ pc' = [pc EXCEPT ![t] = "ins_callbacks_unlock"]
    /\ UNCHANGED <<pending, pendingLock, cur, todo, calls, sent, lastOp, nextSig,
                   pendingReaders, dropped>>

\* The mutex guard is dropped and insert returns.
InsertCallbacksUnlock(t) ==
    /\ pc[t] = "ins_callbacks_unlock"
    /\ callbacksLock' = callbacksLock \ {t}
    /\ calls' = [calls EXCEPT ![cur[t]].done = TRUE]
    /\ cur' = [cur EXCEPT ![t] = 0]
    /\ pc' = [pc EXCEPT ![t] = "idle"]
    /\ UNCHANGED <<pending, callbacks, pendingLock, todo, sent, lastOp, nextSig,
                   pendingReaders, dropped>>

-----------------------------------------------------------------------------
(* remove(item)                                                            *)

StartRemove(t, item) ==
    /\ pc[t] = "idle"
    /\ calls' = Append(calls, NewCall("remove", t, item, 1, None))
    /\ cur' = [cur EXCEPT ![t] = Len(calls) + 1]
    /\ pc' = [pc EXCEPT ![t] = "rem_pending"]
    /\ UNCHANGED <<pending, callbacks, pendingLock, callbacksLock, todo, sent, lastOp,
                   nextSig,
                   pendingReaders, dropped>>

CallRemove(t, item) ==
    /\ Len(calls) < MaxCalls
    /\ StartRemove(t, item)

\* let result = self.pending.write().remove(&item).is_some();
RemovePending(t) ==
    /\ pc[t] = "rem_pending"
    /\ pendingLock = {}
    /\ pendingReaders = {}
    /\ pendingLock' = {t}
    /\ pending' = PendingRemove(pending, calls[cur[t]].item)
    /\ lastOp' = [lastOp EXCEPT ![calls[cur[t]].item] = "remove"]
    /\ calls' = [calls EXCEPT
           ![cur[t]].result = Some(calls[cur[t]].item \in DOMAIN pending),
           ![cur[t]].committed = TRUE,
           ![cur[t]].prevOp = lastOp[calls[cur[t]].item],
           ![cur[t]].regAtCommit =
               IF calls[cur[t]].item \in DOMAIN callbacks
               THEN Range(callbacks[calls[cur[t]].item]) ELSE {}]
    /\ pc' = [pc EXCEPT ![t] = "rem_pending_unlock"]
    /\ UNCHANGED <<callbacks, callbacksLock, cur, todo, sent, nextSig,
                   pendingReaders, dropped>>

\* A remove that binds the write guard to a variable of the function body: the
\* guard is still held while the callbacks are taken and sent to.
RemovePendingHold(t) ==
    /\ pc[t] = "rem_pending_unlock"
    /\ pc' = [pc EXCEPT ![t] = "rem_callbacks"]
    /\ UNCHANGED <<pending, callbacks, pendingLock, callbacksLock, cur, todo, calls,
                   sent, lastOp, nextSig, pendingReaders, dropped>>

\* The write guard is dropped at the end of the let statement.
RemovePendingUnlock(t) ==
    /\ pc[t] = "rem_pending_unlock"
    /\ pendingLock' = pendingLock \ {t}
    /\ pc' = [pc EXCEPT ![t] = "rem_callbacks"]
    /\ UNCHANGED <<pending, callbacks, callbacksLock, cur, todo, calls, sent, lastOp,
                   nextSig,
                   pendingReaders, dropped>>

\* The senders of every key of the callback queue, key after key.
RECURSIVE AllCallbacks(_, _)
AllCallbacks(map, keys) ==
    IF keys = {} THEN <<>>
    ELSE LET k == CHOOSE x \in keys : TRUE
         IN  map[k] \o AllCallbacks(map, keys \ {k})

\* A remove that drains the whole callback queue instead of the entry of its item.
RemoveCallbacksAll(t) ==
    /\ pc[t] = "rem_callbacks"
    /\ callbacksLock = {}
    /\ callbacksLock' = {t}
    /\ callbacks' = EmptyMap
    /\ todo' = [todo EXCEPT ![t] = AllCallbacks(callbacks, DOMAIN callbacks)]
    /\ calls' = [calls EXCEPT ![cur[t]].taken = AllCallbacks(callbacks, DOMAIN callbacks)]
    /\ pc' = [pc EXCEPT ![t] = "rem_send"]
    /\ UNCHANGED <<pending, pendingLock, cur, sent, lastOp, nextSig,
                   pendingReaders, dropped>>

\* A remove that drops the mutex guard as soon as it has taken the vector
\* (let callbacks = self.callbacks.lock().remove(&item);): the sends run with
\* the callback queue unlocked.
RemoveCallbacksRelease(t) ==
    /\ pc[t] = "rem_callbacks"
    /\ callbacksLock = {}
    /\ callbacks' = CallbacksRemove(callbacks, calls[cur[t]].item)
    /\ todo' = [todo EXCEPT ![t] =
           IF calls[cur[t]].item \in DOMAIN callbacks
           THEN callbacks[calls[cur[t]].item] ELSE <<>>]
    /\ calls' = [calls EXCEPT ![cur[t]].taken =
           IF calls[cur[t]].item \in DOMAIN callbacks
           THEN callbacks[calls[cur[t]].item] ELSE <<>>]
    /\ pc' = [pc EXCEPT ![t] = "rem_send"]
    /\ UNCHANGED <<pending, pendingLock, callbacksLock, cur, sent, lastOp, nextSig,
                   pendingReaders, dropped>>

\* if let Some(callbacks) = self.callbacks.lock().remove(&item)
\* The guard is a temporary of the if-let scrutinee: it lives to the end of the
\* if-let statement, so the sends below run with the mutex held.
RemoveCallbacks(t) ==
    /\ pc[t] = "rem_callbacks"
    /\ callbacksLock = {}
    /\ callbacksLock' = {t}
    /\ callbacks' = CallbacksRemove(callbacks, calls[cur[t]].item)
    /\ todo' = [todo EXCEPT ![t] =
           IF calls[cur[t]].item \in DOMAIN callbacks
           THEN callbacks[calls[cur[t]].item] ELSE <<>>]
    /\ calls' = [calls EXCEPT ![cur[t]].taken =
           IF calls[cur[t]].item \in DOMAIN callbacks
           THEN callbacks[calls[cur[t]].item] ELSE <<>>]
    /\ pc' = [pc EXCEPT ![t] = "rem_send"]
    /\ UNCHANGED <<pending, pendingLock, cur, sent, lastOp, nextSig,
                   pendingReaders, dropped>>

\* A send loop that stops at the first failed send (callback.send(())? in place
\* of .ok()): the rest of the vector is dropped unsent.
RemoveSendAbort(t) ==
    /\ pc[t] = "rem_send"
    /\ todo[t] # <<>>
    /\ sent' = Append(sent, [sig |-> Head(todo[t]), by |-> cur[t],
                             item |-> calls[cur[t]].item,
                             present |-> contains(calls[cur[t]].item),
                             delivered |-> Head(todo[t]) \notin dropped])
    /\ calls' = [calls EXCEPT ![cur[t]].fired = Append(@, Head(todo[t]))]
    /\ todo' = [todo EXCEPT ![t] = IF Head(todo[t]) \in dropped THEN <<>> ELSE Tail(@)]
    /\ UNCHANGED <<pending, callbacks, pendingLock, callbacksLock, pc, cur, lastOp,
                   nextSig, pendingReaders, dropped>>

\* for callback in callbacks { callback.send(()).ok(); }   (one iteration)
\* send fails when the receiver has been dropped; .ok() discards the error.
RemoveSend(t) ==
    /\ pc[t] = "rem_send"
    /\ todo[t] # <<>>
    /\ sent' = Append(sent, [sig |-> Head(todo[t]), by |-> cur[t],
                             item |-> calls[cur[t]].item,
                             present |-> contains(calls[cur[t]].item),
                             delivered |-> Head(todo[t]) \notin dropped])
    /\ calls' = [calls EXCEPT ![cur[t]].fired = Append(@, Head(todo[t]))]
    /\ todo' = [todo EXCEPT ![t] = Tail(@)]
    /\ UNCHANGED <<pending, callbacks, pendingLock, callbacksLock, pc, cur, lastOp,
                   nextSig,
                   pendingReaders, dropped>>

\* A remove that returns with the mutex guard leaked: the callback queue stays
\* locked.
RemoveReturnKeep(t) ==
    /\ pc[t] = "rem_send"
    /\ todo[t] = <<>>
    /\ calls' = [calls EXCEPT ![cur[t]].done = TRUE]
    /\ cur' = [cur EXCEPT ![t] = 0]
    /\ pc' = [pc EXCEPT ![t] = "idle"]
    /\ UNCHANGED <<pending, callbacks, pendingLock, callbacksLock, todo, sent, lastOp,
                   nextSig, pendingReaders, dropped>>

\* The if-let statement ends, the mutex guard is dropped, and `result` is returned.
RemoveReturn(t) ==
    /\ pc[t] = "rem_send"
    /\ todo[t] = <<>>
    /\ callbacksLock' = callbacksLock \ {t}
    /\ calls' = [calls EXCEPT ![cur[t]].done = TRUE]
    /\ cur' = [cur EXCEPT ![t] = 0]
    /\ pc' = [pc EXCEPT ![t] = "idle"]
    /\ UNCHANGED <<pending, callbacks, pendingLock, todo, sent, lastOp, nextSig,
                   pendingReaders, dropped>>

-----------------------------------------------------------------------------

Next ==
    \/ \E t \in Callers, item \in Items, peer_ip \in Peers, withCallback \in BOOLEAN :
           CallInsert(t, item, peer_ip, withCallback)
    \/ \E t \in Callers : InsertPending(t)
    \/ \E t \in Callers : InsertPendingUnlock(t)
    \/ \E t \in Callers : InsertCallbacks(t)
    \/ \E t \in Callers : InsertCallbacksUnlock(t)
    \/ \E t \in Callers, item \in Items : CallRemove(t, item)
    \/ \E t \in Callers : RemovePending(t)
    \/ \E t \in Callers : RemovePendingUnlock(t)
    \/ \E t \in Callers : RemoveCallbacks(t)
    \/ \E t \in Callers : RemoveSend(t)
    \/ \E t \in Callers : RemoveReturn(t)

Spec == Init /\ [][Next]_vars

-----------------------------------------------------------------------------
(* The bulk scenario of test_pending_proptest, run by concurrent callers:  *)
(* one insert per identifier, then, once every insert has returned,        *)
(* removes of those identifiers, several of the same identifier allowed.   *)

InsertCalls(item) == {c \in CallIds : calls[c].op = "insert" /\ calls[c].item = item}

RemoveCalls(item) == {c \in CallIds : calls[c].op = "remove" /\ calls[c].item = item}

AllInserted == \A x \in Items : \E c \in InsertCalls(x) : calls[c].done

\* One insert per identifier, each with a peer no other insert uses.
BulkInsert(t, item, peer_ip, withCallback) ==
    /\ InsertCalls(item) = {}
    /\ \A c \in CallIds : calls[c].peer # peer_ip
    /\ withCallback => nextSig <= MaxSignals
    /\ StartInsert(t, item, peer_ip, withCallback)

BulkRemove(t, item) ==
    /\ AllInserted
    /\ Cardinality({c \in CallIds : calls[c].op = "remove"}) < MaxBulkRemoves
    /\ StartRemove(t, item)

NextBulk ==
    \/ \E t \in Callers, item \in Items, peer_ip \in Peers, withCallback \in BOOLEAN :
           BulkInsert(t, item, peer_ip, withCallback)
    \/ \E t \in Callers : InsertPending(t)
    \/ \E t \in Callers : InsertPendingUnlock(t)
    \/ \E t \in Callers : InsertCallbacks(t)
    \/ \E t \in Callers : InsertCallbacksUnlock(t)
    \/ \E t \in Callers, item \in Items : BulkRemove(t, item)
    \/ \E t \in Callers : RemovePending(t)
    \/ \E t \in Callers : RemovePendingUnlock(t)
    \/ \E t \in Callers : RemoveCallbacks(t)
    \/ \E t \in Callers : RemoveSend(t)
    \/ \E t \in Callers : RemoveReturn(t)

SpecBulk == Init /\ [][NextBulk]_vars

-----------------------------------------------------------------------------
(* Properties.                                                             *)

\* The calls that sent to signal s, one element per send.
SendsOf(s) == {i \in DOMAIN sent : sent[i].sig = s}

FiredBy(s) == {sent[i].by : i \in SendsOf(s)}

Signals == 1..(nextSig - 1)

Quiescent == \A t \in Callers : pc[t] = "idle"

WaitersOf(map, item) == IF item \in DOMAIN map THEN map[item] ELSE <<>>

PeersOf(map, item) == IF item \in DOMAIN map THEN Some(map[item]) ELSE None

\* Two calls overlap when neither returned before the other was started.
Overlap(c, d) == c # d /\ c \notin calls[d].before /\ d \notin calls[c].before

\* C1: no completion signal is sent more than once over the whole execution,
\* whichever and however many remove calls run.
C1_AtMostOnce == \A s \in Signals : Cardinality(SendsOf(s)) <= 1

\* C1 witness: a signal was sent while two remove calls of its item overlapped
\* and both have returned.
C1_Witness ==
    \E i \in DOMAIN sent : \E c, d \in RemoveCalls(sent[i].item) :
        Overlap(c, d) /\ calls[c].done /\ calls[d].done

\* C2: every signal queued for X when a remove(X) deletes X's pending entry is
\* sent by that same remove call and by no other call.
C2_FiredByCommittingRemove ==
    \A c \in CallIds :
        (calls[c].op = "remove" /\ calls[c].done) =>
            \A s \in calls[c].regAtCommit : FiredBy(s) = {c}

\* C3: a signal given to an insert(X) that starts after a remove(X) has deleted
\* X's pending entry is never sent by that earlier remove.
C3_NotFiredByStaleRemove ==
    \A c \in CallIds :
        (calls[c].op = "insert" /\ calls[c].sig # None) =>
            FiredBy(calls[c].sig[1]) \cap calls[c].stale = {}

\* C4: whenever remove(X) sends a signal of X, X is absent from the pending map
\* at that moment.
C4_AbsentWhenFired == \A i \in DOMAIN sent : ~sent[i].present

\* The atomic tracker the linearizability claim compares with: insert adds the
\* peer and appends the signal in one step, remove deletes both entries and
\* sends to all the signals in one step.  AtomicRun is its state for one
\* identifier after the first k calls of `order`, with ok telling whether every
\* remove so far returned and sent what the concurrent execution recorded.
RECURSIVE AtomicRun(_, _)
AtomicRun(order, k) ==
    IF k = 0
    THEN [pend |-> None, wait |-> <<>>, ok |-> TRUE]
    ELSE LET st == AtomicRun(order, k - 1)
             c == calls[order[k]]
         IN  IF c.op = "insert"
             THEN [pend |-> Some((IF st.pend = None THEN {} ELSE st.pend[1])
                                 \cup {c.peer}),
                   wait |-> IF c.sig = None THEN st.wait
                            ELSE Append(st.wait, c.sig[1]),
                   ok |-> st.ok]
             ELSE [pend |-> None,
                   wait |-> <<>>,
                   ok |-> /\ st.ok
                          /\ c.result = Some(st.pend # None)
                          /\ c.fired = st.wait]

CallsOf(item) == {c \in CallIds : calls[c].item = item}

\* The orders of a set of calls: the one-to-one sequences over it.
OrdersOf(S) ==
    {f \in [1..Cardinality(S) -> S] :
        \A i, j \in 1..Cardinality(S) : i # j => f[i] # f[j]}

\* An order respects real time when a call that returned before another was
\* started comes first.
RealTime(order, n) ==
    \A i, j \in 1..n : order[i] \in calls[order[j]].before => i < j

LinearizableAt(item) ==
    LET n == Cardinality(CallsOf(item))
    IN  \E order \in OrdersOf(CallsOf(item)) :
            /\ RealTime(order, n)
            /\ AtomicRun(order, n).ok
            /\ AtomicRun(order, n).pend = PeersOf(pending, item)
            /\ AtomicRun(order, n).wait = WaitersOf(callbacks, item)

\* C5: for a single identifier, every concurrent execution (the results of
\* remove, the signals each remove sent, the final pending and waiter state)
\* equals the outcome of some sequential order, consistent with real time, of
\* atomic insert and remove operations.
C5_Linearizable == Quiescent => \A x \in Items : LinearizableAt(x)

\* A remove of `item` by caller t is between its deletion of the pending entry
\* and its return.
InRemoveWindow(t, item) ==
    /\ pc[t] \in {"rem_pending_unlock", "rem_callbacks", "rem_send"}
    /\ calls[cur[t]].item = item

\* C6: remove(X) deletes X's pending entry and X's waiter entry atomically: no
\* step of another call changes X's pending entry or waiter entry between the
\* two deletions of one remove call.
C6_RemoveAtomic ==
    [][\A t \in Callers, x \in Items :
          (InRemoveWindow(t, x) /\ pc'[t] = pc[t] /\ todo'[t] = todo[t]) =>
              /\ PeersOf(pending', x) = PeersOf(pending, x)
              /\ WaitersOf(callbacks', x) = WaitersOf(callbacks, x)]_vars

\* C7: remove(X) returns true iff X had a pending entry, which it deleted: true
\* when the last write of X was an insert, false when it was a remove or when X
\* was never inserted; and with no insert of X since, X is not contained and
\* get(X) is None.
C7_RemoveReports ==
    /\ \A c \in CallIds :
           (calls[c].op = "remove" /\ calls[c].committed) =>
               calls[c].result = Some(calls[c].prevOp = "insert")
    /\ \A x \in Items :
           lastOp[x] # "insert" => (~contains(x) /\ get(x) = None)

\* C7 witness: a remove returned true and a later remove of the same identifier
\* returned false.
C7_Witness ==
    \E x \in Items : \E c, d \in RemoveCalls(x) :
        /\ calls[c].done /\ calls[d].done /\ c \in calls[d].before
        /\ calls[c].result = Some(TRUE) /\ calls[d].result = Some(FALSE)
        /\ ~contains(x)

\* C8: in the bulk scenario len() is the number of identifiers once all inserts
\* have returned; of the removes of one identifier exactly one returns true
\* and all others false; and the tracker is empty once every identifier has
\* been removed.
C8_Bulk ==
    /\ (AllInserted /\ \A c \in CallIds : calls[c].op = "insert") => len = NumItems
    /\ \A x \in Items :
           LET committed == {c \in RemoveCalls(x) : calls[c].committed}
           IN  committed # {} =>
                   Cardinality({c \in committed : calls[c].result = Some(TRUE)}) = 1
    /\ (\A x \in Items : \E c \in RemoveCalls(x) : calls[c].committed) => is_empty

\* C8 witness: every identifier was inserted and removed, two removes of one
\* identifier overlapped, and all calls have returned.
C8_Witness ==
    /\ Quiescent
    /\ is_empty
    /\ \A x \in Items : RemoveCalls(x) # {}
    /\ \E x \in Items : \E c, d \in RemoveCalls(x) : Overlap(c, d)

\* C9: every identifier that is a key of the pending map has a non-empty set of
\* peer addresses.
C9_PeerSetsNonEmpty == \A x \in DOMAIN pending : pending[x] # {}

\* C9 witness: an entry created again by an insert that overlapped a remove of
\* the same identifier.
C9_Witness ==
    \E x \in DOMAIN pending : \E c \in InsertCalls(x), d \in RemoveCalls(x) :
        calls[c].committed /\ calls[d].committed /\ Overlap(c, d)

\* The step deletes the pending entry of `item` (remove's write of the map).
RemoveCommits(item) ==
    \E t \in Callers :
        /\ pc[t] = "rem_pending"
        /\ pc'[t] = "rem_pending_unlock"
        /\ calls[cur[t]].item = item

\* C10: no peer address is lost: insert(X, P, _) adds P to X's peer set, and
\* until a remove(X) deletes the entry the peer set of X only grows.
C10_NoPeerLost ==
    [][/\ \A t \in Callers :
              (pc[t] = "ins_pending" /\ pc'[t] = "ins_pending_unlock") =>
                  PeersOf(pending', calls[cur[t]].item) # None
                  /\ calls[cur[t]].peer \in pending'[calls[cur[t]].item]
       /\ \A x \in Items :
              (contains(x) /\ ~RemoveCommits(x)) =>
                  /\ x \in DOMAIN pending'
                  /\ pending[x] \subseteq pending'[x]]_vars

\* C10 witness: two overlapping inserts of different peers for one identifier,
\* both in get(X).
C10_Witness ==
    \E x \in DOMAIN pending : \E c, d \in InsertCalls(x) :
        /\ Overlap(c, d)
        /\ calls[c].peer # calls[d].peer
        /\ {calls[c].peer, calls[d].peer} \subseteq pending[x]

\* The calls ran one after the other: each returned before the next was started.
Sequential == \A c, d \in CallIds : c < d => c \in calls[d].before

\* The last remove call of `item` (0 when there is none).
LastRemove(item) ==
    IF RemoveCalls(item) = {} THEN 0
    ELSE CHOOSE m \in RemoveCalls(item) : \A c \in RemoveCalls(item) : c <= m

\* The peers passed to insert for `item` since its last remove.
PeersSinceRemove(item) ==
    {calls[c].peer : c \in {d \in InsertCalls(item) : d > LastRemove(item)}}

\* C11: after any sequence of completed insert and remove calls, get(X) is
\* exactly the set of peers passed to insert for X since the last remove(X),
\* None when there are none; len() is the number of identifiers with a pending
\* entry, however many peers each has; is_empty() holds iff len() is 0, as on a
\* fresh tracker.
C11_GetIsPeersSinceRemove ==
    (Quiescent /\ Sequential) =>
        /\ \A x \in Items :
               get(x) = IF PeersSinceRemove(x) = {} THEN None
                        ELSE Some(PeersSinceRemove(x))
        /\ len = Cardinality({x \in Items : PeersSinceRemove(x) # {}})
        /\ is_empty <=> (len = 0)
        /\ calls = <<>> => (len = 0 /\ is_empty)

\* C11 witness: the same (X, P) pair inserted twice and a second peer once, one
\* call after the other, with get(X) holding the two peers.
C11_Witness ==
    /\ Quiescent /\ Sequential
    /\ \E x \in Items : \E c, d, e \in InsertCalls(x) :
           /\ c # d /\ calls[c].peer = calls[d].peer
           /\ calls[e].peer # calls[c].peer
           /\ get(x) = Some({calls[c].peer, calls[e].peer})
           /\ len = 1

-----------------------------------------------------------------------------
(* The successive scenario: every call is started after the previous call  *)
(* has returned (the callers take turns).                                  *)

SeqInsert(t, item, peer_ip, withCallback) ==
    /\ Quiescent
    /\ Len(calls) < MaxSeqCalls
    /\ withCallback => nextSig <= MaxSeqSignals
    /\ StartInsert(t, item, peer_ip, withCallback)

SeqRemove(t, item) ==
    /\ Quiescent
    /\ Len(calls) < MaxSeqCalls
    /\ StartRemove(t, item)

NextSeq ==
    \/ \E t \in Callers, item \in Items, peer_ip \in Peers, withCallback \in BOOLEAN :
           SeqInsert(t, item, peer_ip, withCallback)
    \/ \E t \in Callers : InsertPending(t)
    \/ \E t \in Callers : InsertPendingUnlock(t)
    \/ \E t \in Callers : InsertCallbacks(t)
    \/ \E t \in Callers : InsertCallbacksUnlock(t)
    \/ \E t \in Callers, item \in Items : SeqRemove(t, item)
    \/ \E t \in Callers : RemovePending(t)
    \/ \E t \in Callers : RemovePendingUnlock(t)
    \/ \E t \in Callers : RemoveCallbacks(t)
    \/ \E t \in Callers : RemoveSend(t)
    \/ \E t \in Callers : RemoveReturn(t)

SpecSeq == Init /\ [][NextSeq]_vars

\* The signals registered for `item` by the insert calls lo+1 .. hi, in call order.
RECURSIVE SigsIn(_, _, _)
SigsIn(item, lo, hi) ==
    IF hi <= lo THEN <<>>
    ELSE IF /\ calls[hi].op = "insert"
            /\ calls[hi].item = item
            /\ calls[hi].sig # None
         THEN Append(SigsIn(item, lo, hi - 1), calls[hi].sig[1])
         ELSE SigsIn(item, lo, hi - 1)

\* The remove call of `item` before call c (0 when there is none).
RemoveBefore(item, c) ==
    LET R == {r \in RemoveCalls(item) : r < c}
    IN  IF R = {} THEN 0 ELSE CHOOSE m \in R : \A r \in R : r <= m

\* C12: the signals registered by successive insert calls on X are, on the
\* following remove(X), each sent exactly once and in registration order.
C12_FanOutInOrder ==
    \A c \in CallIds :
        (calls[c].op = "remove" /\ calls[c].done) =>
            /\ calls[c].fired = SigsIn(calls[c].item, RemoveBefore(calls[c].item, c), c)
            /\ \A s \in Range(calls[c].fired) : Cardinality(SendsOf(s)) = 1

\* C12 witness: a remove that sent to three signals, registered by three
\* successive inserts, in their order.
C12_Witness ==
    \E c \in CallIds :
        /\ calls[c].op = "remove" /\ calls[c].done
        /\ calls[c].fired = <<1, 2, 3>>
        /\ Len(sent) = 3
        /\ \A i \in 1..3 : sent[i].sig = i /\ sent[i].by = c

-----------------------------------------------------------------------------
(* Waiters that give up: the receiving half of a oneshot channel handed to *)
(* insert is dropped by its owner at any time before the channel is sent to.*)

DropReceiver(s) ==
    /\ s \in Signals
    /\ s \notin dropped
    /\ SendsOf(s) = {}
    /\ dropped' = dropped \cup {s}
    /\ UNCHANGED <<pending, callbacks, pendingLock, callbacksLock, pc, cur, todo, calls,
                   sent, lastOp, nextSig, pendingReaders>>

NextDrop ==
    \/ Next
    \/ \E s \in 1..MaxSignals : DropReceiver(s)

SpecDrop == Init /\ [][NextDrop]_vars

\* C13: with the receiver of a registered waiter of X dropped before remove(X),
\* remove(X) still returns true when X was pending, sends to every waiter it
\* took, delivers to every one whose receiver is alive, and a send changes
\* nothing of the tracker state.
C13_AbandonedWaiterSafe ==
    /\ [](\A c \in CallIds :
            (calls[c].op = "remove" /\ calls[c].done) =>
                /\ calls[c].result = Some(calls[c].prevOp = "insert")
                /\ calls[c].fired = calls[c].taken
                /\ \A s \in Range(calls[c].taken) :
                       s \notin dropped =>
                           \E i \in SendsOf(s) : sent[i].by = c /\ sent[i].delivered)
    /\ [][sent' # sent =>
              /\ pending' = pending
              /\ callbacks' = callbacks
              /\ pendingLock' = pendingLock
              /\ callbacksLock' = callbacksLock
              /\ pc' = pc]_vars

\* C13 witness: a remove that returned true after a failed send to a dropped
\* receiver followed by a delivery to a live one.
C13_Witness ==
    \E c \in CallIds :
        /\ calls[c].op = "remove" /\ calls[c].done
        /\ calls[c].result = Some(TRUE)
        /\ Len(calls[c].fired) = 2
        /\ \E i, j \in DOMAIN sent :
               /\ i < j /\ sent[i].by = c /\ sent[j].by = c
               /\ ~sent[i].delivered /\ sent[j].delivered

-----------------------------------------------------------------------------
(* The read accessors as calls: each takes the read lock of `pending`,     *)
(* computes its value and drops the guard at the end of the statement.     *)

ReadOps == {"is_empty", "len", "contains", "contains_peer", "get"}

StartRead(t, op, item, peer_ip) ==
    /\ pc[t] = "idle"
    /\ Len(calls) < MaxCalls
    /\ calls' = Append(calls, NewCall(op, t, item, peer_ip, None))
    /\ cur' = [cur EXCEPT ![t] = Len(calls) + 1]
    /\ pc' = [pc EXCEPT ![t] = "acc_read"]
    /\ UNCHANGED <<pending, callbacks, pendingLock, callbacksLock, todo, sent, lastOp,
                   nextSig, pendingReaders, dropped>>

\* is_empty() and len() take no argument: the item and peer of the call record
\* are unused.
CallIsEmpty(t) == \E item \in Items, peer_ip \in Peers :
    /\ \A x \in Items : item <= x
    /\ \A p \in Peers : peer_ip <= p
    /\ StartRead(t, "is_empty", item, peer_ip)

CallLen(t) == \E item \in Items, peer_ip \in Peers :
    /\ \A x \in Items : item <= x
    /\ \A p \in Peers : peer_ip <= p
    /\ StartRead(t, "len", item, peer_ip)

CallContains(t, item) == \E peer_ip \in Peers :
    /\ \A p \in Peers : peer_ip <= p
    /\ StartRead(t, "contains", item, peer_ip)

CallContainsPeer(t, item, peer_ip) == StartRead(t, "contains_peer", item, peer_ip)

CallGet(t, item) == \E peer_ip \in Peers :
    /\ \A p \in Peers : peer_ip <= p
    /\ StartRead(t, "get", item, peer_ip)

\* The value the accessor `op` computes from the pending map.
AccessorValue(op, item, peer_ip) ==
    CASE op = "is_empty" -> is_empty
      [] op = "len" -> len
      [] op = "contains" -> contains(item)
      [] op = "contains_peer" -> contains_peer(item, peer_ip)
      [] op = "get" -> get(item)

\* self.pending.read().<accessor>: the read guard is taken (no writer holds the
\* lock) and the value is computed.
AccessorRead(t) ==
    /\ pc[t] = "acc_read"
    /\ pendingLock = {}
    /\ pendingReaders' = pendingReaders \cup {t}
    /\ calls' = [calls EXCEPT
           ![cur[t]].result = Some(AccessorValue(calls[cur[t]].op, calls[cur[t]].item,
                                                 calls[cur[t]].peer)),
           ![cur[t]].committed = TRUE,
           ![cur[t]].snap = pending]
    /\ pc' = [pc EXCEPT ![t] = "acc_unlock"]
    /\ UNCHANGED <<pending, callbacks, pendingLock, callbacksLock, cur, todo, sent,
                   lastOp, nextSig, dropped>>

\* The read guard is dropped and the accessor returns its value.
AccessorReturn(t) ==
    /\ pc[t] = "acc_unlock"
    /\ pendingReaders' = pendingReaders \ {t}
    /\ calls' = [calls EXCEPT ![cur[t]].done = TRUE]
    /\ cur' = [cur EXCEPT ![t] = 0]
    /\ pc' = [pc EXCEPT ![t] = "idle"]
    /\ UNCHANGED <<pending, callbacks, pendingLock, callbacksLock, todo, sent, lastOp,
                   nextSig, dropped>>

NextRead ==
    \/ Next
    \/ \E t \in Callers : CallIsEmpty(t)
    \/ \E t \in Callers : CallLen(t)
    \/ \E t \in Callers, item \in Items : CallContains(t, item)
    \/ \E t \in Callers, item \in Items, peer_ip \in Peers :
           CallContainsPeer(t, item, peer_ip)
    \/ \E t \in Callers, item \in Items : CallGet(t, item)
    \/ \E t \in Callers : AccessorRead(t)
    \/ \E t \in Callers : AccessorReturn(t)

SpecRead == Init /\ [][NextRead]_vars

\* The identifier a signal was registered for: the item of the insert it was
\* handed to.
SigItem(s) == calls[CHOOSE c \in CallIds : calls[c].sig = Some(s)].item

\* C14: a signal registered for X is sent only inside a remove(X) call: every
\* send is a step of a caller inside the send loop of remove, by a remove call
\* of the item the signal was registered for; insert, the read accessors and
\* remove(Y) send nothing of X.
C14_OnlyRemoveFires ==
    /\ [](\A i \in DOMAIN sent :
            /\ calls[sent[i].by].op = "remove"
            /\ calls[sent[i].by].item = SigItem(sent[i].sig)
            /\ sent[i].item = SigItem(sent[i].sig))
    /\ [][sent' # sent =>
              \E t \in Callers :
                  /\ pc[t] = "rem_send"
                  /\ calls[cur[t]].op = "remove"
                  /\ Len(sent') = Len(sent) + 1
                  /\ sent'[Len(sent')].by = cur[t]]_vars

\* C14 witness: a signal of X still queued and unsent after a remove(Y), Y # X,
\* and a read accessor call ran to their end after its insert returned.
C14_Witness ==
    \E c, r, a \in CallIds :
        /\ calls[c].op = "insert" /\ calls[c].sig # None /\ calls[c].done
        /\ calls[r].op = "remove" /\ calls[r].item # calls[c].item /\ calls[r].done
        /\ calls[a].op \in ReadOps /\ calls[a].done
        /\ c \in calls[r].before /\ c \in calls[a].before
        /\ SendsOf(calls[c].sig[1]) = {}
        /\ calls[c].sig[1] \in Range(WaitersOf(callbacks, calls[c].item))

\* The step is one of a call on `item`.
StepOn(item) ==
    \E t \in Callers :
        /\ cur[t] # 0
        /\ calls[cur[t]].item = item
        /\ calls[cur[t]].op \in {"insert", "remove"}
        /\ pc'[t] # pc[t]

\* C15: insert(X, ...) and remove(X) leave the pending entry and the waiter
\* entry of every other identifier Y unchanged: an entry of Y changes only in a
\* step of an insert or remove call on Y.
C15_OtherItemsUnchanged ==
    [][\A y \in Items :
          (\/ PeersOf(pending', y) # PeersOf(pending, y)
           \/ WaitersOf(callbacks', y) # WaitersOf(callbacks, y)) => StepOn(y)]_vars

\* C15 witness: Y pending with a waiter after a remove(X), X # Y, that found X
\* pending and deleted it.
C15_Witness ==
    \E r \in CallIds : \E y \in Items :
        /\ calls[r].op = "remove" /\ calls[r].done /\ calls[r].result = Some(TRUE)
        /\ y # calls[r].item
        /\ y \in DOMAIN pending /\ y \in DOMAIN callbacks
        /\ \E c \in InsertCalls(y) : c \in calls[r].before

\* The value an accessor call has to return on the pending map m.
SnapshotValue(c, m) ==
    CASE calls[c].op = "is_empty" -> (Cardinality(DOMAIN m) = 0)
      [] calls[c].op = "len" -> Cardinality(DOMAIN m)
      [] calls[c].op = "contains" -> (calls[c].item \in DOMAIN m)
      [] calls[c].op = "contains_peer" ->
             (calls[c].item \in DOMAIN m /\ calls[c].peer \in m[calls[c].item])
      [] calls[c].op = "get" ->
             (IF calls[c].item \in DOMAIN m THEN Some(m[calls[c].item]) ELSE None)

\* C16: the read accessors leave the pending map and the callback queue
\* unchanged and send to no signal, and each returns the value of the pending
\* map at one instant: len its cardinality, is_empty iff that is 0,
\* contains_peer false when the item is absent, get a copy of the peer set or
\* None.
C16_AccessorsReadOnly ==
    /\ [](\A c \in CallIds :
            (calls[c].op \in ReadOps /\ calls[c].committed) =>
                calls[c].result = Some(SnapshotValue(c, calls[c].snap)))
    /\ [][\A t \in Callers :
              (pc[t] \in {"idle", "acc_read", "acc_unlock"}
               /\ pc'[t] \in {"acc_read", "acc_unlock", "idle"}
               /\ pc'[t] # pc[t]) =>
                  /\ pending' = pending
                  /\ callbacks' = callbacks
                  /\ sent' = sent
                  /\ (pc[t] = "acc_read" => calls'[cur[t]].snap = pending)]_vars

\* C16 witness: a get(X) that returned a peer set while an insert of another
\* peer for X was in progress, which has since written the map: the value
\* returned is the map of one earlier instant.
C16_Witness ==
    \E a \in CallIds :
        /\ calls[a].op = "get" /\ calls[a].done
        /\ calls[a].result # Some(None)
        /\ calls[a].result # Some(get(calls[a].item))
        /\ contains(calls[a].item)

\* C17: no caller sends to completion signals while holding the lock of the
\* pending map: the write guard remove took is released before its first send.
C17_NoSendUnderPendingLock ==
    \A t \in Callers :
        pc[t] = "rem_send" => (t \notin pendingLock /\ t \notin pendingReaders)

\* C17 witness: a caller in the send loop of remove, with signals left to send
\* to, while another caller holds the write lock of the pending map.
C17_Witness ==
    \E t, u \in Callers :
        /\ t # u
        /\ pc[t] = "rem_send" /\ todo[t] # <<>>
        /\ pendingLock = {u}

\* C18: in every quiescent state every identifier that has a waiter entry also
\* has a pending entry: no registered, unsent signal is queued for an
\* identifier that is not pending.
C18_WaitersOnlyForPending == Quiescent => DOMAIN callbacks \subseteq DOMAIN pending

-----------------------------------------------------------------------------
(* Fair scheduling: a caller inside a call that can take its next step     *)
(* eventually takes it (the threads are scheduled, and a lock that stays   *)
(* free is eventually granted).                                            *)

FairInsert(t, item, peer_ip, withCallback) ==
    /\ Len(calls) < MaxFairCalls
    /\ withCallback => nextSig <= MaxSignals
    /\ StartInsert(t, item, peer_ip, withCallback)

FairRemove(t, item) ==
    /\ Len(calls) < MaxFairCalls
    /\ StartRemove(t, item)

FairRead(t, item, peer_ip) ==
    /\ Len(calls) < MaxFairCalls
    /\ \/ CallIsEmpty(t)
       \/ CallLen(t)
       \/ CallContains(t, item)
       \/ CallContainsPeer(t, item, peer_ip)
       \/ CallGet(t, item)

\* The steps of caller t inside a call.
Step(t) ==
    \/ InsertPending(t)
    \/ InsertPendingUnlock(t)
    \/ InsertCallbacks(t)
    \/ InsertCallbacksUnlock(t)
    \/ RemovePending(t)
    \/ RemovePendingUnlock(t)
    \/ RemoveCallbacks(t)
    \/ RemoveSend(t)
    \/ RemoveReturn(t)
    \/ AccessorRead(t)
    \/ AccessorReturn(t)

NextFair ==
    \/ \E t \in Callers, item \in Items, peer_ip \in Peers, withCallback \in BOOLEAN :
           FairInsert(t, item, peer_ip, withCallback)
    \/ \E t \in Callers, item \in Items : FairRemove(t, item)
    \/ \E t \in Callers, item \in Items, peer_ip \in Peers : FairRead(t, item, peer_ip)
    \/ \E t \in Callers : Step(t)

SpecFair == Init /\ [][NextFair]_vars /\ \A t \in Callers : WF_vars(Step(t))

\* The locks caller t holds.
HoldsPending(t) == t \in pendingLock \/ t \in pendingReaders

HoldsCallbacks(t) == t \in callbacksLock

\* C19: no caller ever holds the lock of the pending map and the lock of the
\* callback queue at the same time, and under fair scheduling every insert,
\* remove and accessor call that was started returns.
C19_NoDeadlock ==
    /\ [](\A t \in Callers : ~(HoldsPending(t) /\ HoldsCallbacks(t)))
    /\ \A t \in Callers : (pc[t] # "idle") ~> (pc[t] = "idle")

\* C19 witness: a caller waiting for the write lock of the pending map, which
\* another caller holds.
C19_Witness ==
    \E t, u \in Callers :
        /\ t # u
        /\ pc[t] \in {"ins_pending", "rem_pending", "acc_read"}
        /\ pendingLock = {u}

\* Concurrent insert and remove calls under the same fair scheduling.
SpecWriteFair == Init /\ [][Next]_vars /\ \A t \in Callers : WF_vars(Step(t))

\* The insert that registered signal s has returned, and a remove of its item
\* was started afterwards.
RemoveCalledAfterInsert(s) ==
    \E c, r \in CallIds :
        /\ calls[c].op = "insert" /\ calls[c].sig = Some(s) /\ calls[c].done
        /\ calls[r].op = "remove" /\ calls[r].item = calls[c].item
        /\ c \in calls[r].before

\* C20: if insert(X, P, Some(S)) has returned and a remove(X) is started
\* afterwards, S has been sent by the time that remove returns (by it or by an
\* earlier remove); under fair scheduling S is then eventually sent.
C20_FiredByReturn ==
    /\ [](\A c, r \in CallIds :
            (/\ calls[c].op = "insert" /\ calls[c].sig # None /\ calls[c].done
             /\ calls[r].op = "remove" /\ calls[r].item = calls[c].item
             /\ c \in calls[r].before
             /\ calls[r].done) => SendsOf(calls[c].sig[1]) # {})
    /\ \A s \in 1..MaxSignals : RemoveCalledAfterInsert(s) ~> (SendsOf(s) # {})

\* C20 witness: the signal was taken by a remove that overlapped the insert's
\* return, and a second remove, started after the insert returned, has returned
\* as well: it found no callbacks and the signal had been sent by then.
C20_Witness ==
    \E c, r0, r \in CallIds :
        /\ calls[c].op = "insert" /\ calls[c].sig # None /\ calls[c].done
        /\ calls[r0].op = "remove" /\ calls[r].op = "remove" /\ r0 # r
        /\ calls[r0].item = calls[c].item /\ calls[r].item = calls[c].item
        /\ c \in calls[r].before /\ calls[r].done
        /\ Overlap(r0, r)
        /\ calls[r].fired = <<>>
        /\ FiredBy(calls[c].sig[1]) = {r0}

====
